---- MODULE Spec2Model ----
(***************************************************************************)
(* Analysis job lifecycle of the Vastu Vision backend.                     *)
(*                                                                         *)
(* The Analyses collection, the request handlers of routes/analysis.js     *)
(* and the document methods of models/Analysis.js.  A handler is a         *)
(* sequence of database round trips: findById loads a private in-memory    *)
(* copy of the document, the handler mutates the copy, and save() writes   *)
(* back only the paths the handler modified.  Handlers of different        *)
(* requests interleave between their round trips.                          *)
(***************************************************************************)
EXTENDS Integers, FiniteSets, Sequences, TLC

(* ---------------------------- bounds ----------------------------------- *)

\* requests in flight at a time; a start request stays in flight until its
\* timer callback has ended
MaxReqs == 2
\* clock ticks the model lets pass
MaxTicks == 2
\* view, like and share requests the model lets past their checks
MaxCount == 3

\* files in one upload batch
MaxFiles == 2
\* upload batches the model lets in
MaxUploads == 2
\* auth requests in flight at once
MaxAuthReqs == 2
\* forgot-password requests that generate a reset token
MaxTokens == 2

(* ---------------------------- constants -------------------------------- *)

\* setTimeout delay of the simulated scoring run, in ms
ProcessingDelay == 5000
\* maxlength of title and description
TitleMax == 100
DescriptionMax == 500
\* one clock tick, in ms: the clock is read twice per processing delay
TickMs == ProcessingDelay \div 2

AnalysisIds == {"a1"}
Users == {"alice", "bob"}
Anonymous == "anonymous"
\* email addresses no user is registered with yet
NewEmails == {"carol", "dave"}
AuthSlots == 1..MaxAuthReqs
\* resetPasswordExpire = Date.now() + 10 * 60 * 1000
ResetExpire == 10 * 60 * 1000
\* the passwords a client sends to reset-password
NewPasswords == {1, 2}
\* principals whose subscription makes user.isPremium() true
PremiumUsers == {"alice"}

\* an unset Date or Number path
NoTime == -1
Undef == "undefined"

Slots == 1..MaxReqs

Statuses == {"pending", "processing", "completed", "failed"}
CounterNames == {"views", "likes", "shares"}

\* values Math.random() takes, in hundredths
RandomSamples == {0, 50, 99}

SummaryText == "Overall good Vastu compliance"

\* title lengths a client sends to POST /api/analysis
CreateTitles == {2, 10}

\* a dimensions sub-document: length, width and area, NoTime when unset
Dim(l, w, a) == [length |-> l, width |-> w, area |-> a]
NoDim == Dim(NoTime, NoTime, NoTime)

\* floor plans a client sends to POST /api/analysis: orientation, top-level
\* dimensions and the dimensions of the rooms
Plan(o, d, rooms) == [orientation |-> o, dimensions |-> d, rooms |-> rooms]
\* the floor plan of the lifecycle specification: an area is sent along with
\* length and width, one room has none
BasePlans == { Plan("north", Dim(4, 5, 99), <<Dim(2, 3, NoTime)>>) }
FloorPlans ==
  BasePlans \cup
  { Plan("north", NoDim, <<>>),
    Plan("east", Dim(NoTime, NoTime, 500), <<>>),
    Plan("south", Dim(4, 5, NoTime), <<Dim(0, 5, 7)>>),
    Plan("west", Dim(0, 5, NoTime), <<>>) }

\* request bodies a client sends to PUT /api/analysis/:id: the supplied
\* fields and their values (title and description by their length)
UpdateBodies ==
  { [has |-> {"title", "description", "isPublic", "tags"}, title |-> 20,
     description |-> 30, isPublic |-> TRUE, tags |-> <<"home">>],
    [has |-> {"title"}, title |-> TitleMax + 1, description |-> NoTime,
     isPublic |-> FALSE, tags |-> <<>>] }
\* the same with a body that supplies isPublic alone
PartialBodies ==
  UpdateBodies \cup
  { [has |-> {"isPublic"}, title |-> NoTime, description |-> NoTime,
     isPublic |-> TRUE, tags |-> <<>>] }

VARIABLES
  db,       \* Analyses collection: the stored documents by id
  created,  \* ids that were ever inserted (an ObjectId is never reused)
  now,      \* wall clock, ms
  slot,     \* request slots: handler position and in-memory document
  runs,     \* per id: scoring runs armed by setTimeout so far
  acks,     \* per id and counter: increment requests answered 200 so far
  cloud,    \* Blob Store: the stored blobs and the destroy calls received
  upload,   \* the POST /api/upload/files request in flight
  listing,  \* the pages of GET /api/analysis a client has fetched so far
  accounts, \* Users collection: the stored user documents by principal
  authReq,  \* the requests to /api/auth and /api/users in flight
  route,    \* the request an express router is dispatching
  call      \* the last call of the scoring step or of predictVastuScore

vars == <<db, created, now, slot, runs, acks, cloud, upload, listing,
          accounts, authReq, route, call>>

(* ------------------------- models/Analysis.js -------------------------- *)

\* the enum of floorPlan.orientation
Orientations == {"north", "south", "east", "west", "northeast", "northwest",
                 "southeast", "southwest"}

\* a number as an if-condition: undefined and 0 are falsy
Truthy(n) == n # NoTime /\ n # 0

\* the area assignment of the pre-save hook on one dimensions sub-document
HookArea(d) ==
  IF Truthy(d.length) /\ Truthy(d.width)
    THEN [d EXCEPT !.area = d.length * d.width]
    ELSE d

\* the pre-save hook on the floor plan: the top-level dimensions and the
\* dimensions of every room
HookPlan(plan) ==
  [plan EXCEPT !.dimensions = HookArea(plan.dimensions),
               !.rooms = [i \in DOMAIN plan.rooms |-> HookArea(plan.rooms[i])]]

\* schema defaults of a freshly created document
analysisSchema(u, title, description, isPublic, tags, files, plan) ==
  [ user |-> u,
    title |-> title,
    description |-> description,
    isPublic |-> isPublic,
    tags |-> tags,
    files |-> files,
    floorPlan |-> plan,
    status |-> "pending",
    processingStartedAt |-> NoTime,
    completedAt |-> NoTime,
    processingTime |-> NoTime,
    vastuAnalysis |-> [overallScore |-> 0, summary |-> Undef],
    views |-> 0,
    likes |-> 0,
    shares |-> 0 ]

\* Math.round(ms / 1000): nearest integer, halves towards +infinity
RoundSeconds(ms) == (ms + 500) \div 1000

\* the paths a handler reads or assigns between findById and the end of its
\* work; the copy it holds is kept for these paths only
Touched(op) ==
  CASE op = "start" -> {"status", "processingStartedAt", "completedAt",
                        "processingTime", "vastuAnalysis", "floorPlan"}
    [] op = "update" -> {"title", "description", "isPublic", "tags", "status",
                         "floorPlan"}
    [] op = "view" -> {"views", "floorPlan"}
    [] op = "like" -> {"likes", "floorPlan"}
    [] op = "share" -> {"shares", "floorPlan"}
    [] OTHER -> {}

\* an in-memory mongoose document: the values and the modified paths
MemDoc(stored, op) ==
  [val |-> [p \in Touched(op) |-> stored[p]], mod |-> {}]
NoMem == [val |-> <<>>, mod |-> {}]

\* assignment to a path: marks it modified when the value changes
SetPath(d, path, v) ==
  IF d.val[path] = v THEN d
  ELSE [val |-> [d.val EXCEPT ![path] = v], mod |-> d.mod \cup {path}]

\* updateStatus without the processingStartedAt assignment
updateStatus_NoStartedAt(d, status, t) ==
  LET d1 == SetPath(d, "status", status) IN
  IF status = "completed" THEN
    LET d2 == SetPath(d1, "completedAt", t) IN
    IF d2.val.processingStartedAt # NoTime
      THEN SetPath(d2, "processingTime",
                   RoundSeconds(d2.val.completedAt - d2.val.processingStartedAt))
      ELSE d2
  ELSE d1

\* the in-memory part of updateStatus(status), before this.save()
updateStatus(d, status, t) ==
  LET d1 == SetPath(d, "status", status) IN
  IF status = "processing" THEN SetPath(d1, "processingStartedAt", t)
  ELSE IF status = "completed" THEN
    LET d2 == SetPath(d1, "completedAt", t) IN
    IF d2.val.processingStartedAt # NoTime
      THEN SetPath(d2, "processingTime",
                   RoundSeconds(d2.val.completedAt - d2.val.processingStartedAt))
      ELSE d2
  ELSE d1

\* analysisSchema.pre('save') on an in-memory document
preSave(d) == SetPath(d, "floorPlan", HookPlan(d.val.floorPlan))

\* the in-memory part of incrementViews / like / share
Increment(d, counter) == SetPath(d, counter, d.val[counter] + 1)

\* schema validators run by save() unless validateBeforeSave is false
SchemaValid(v) ==
  /\ "title" \in DOMAIN v => v.title # NoTime /\ v.title <= TitleMax
  /\ "description" \in DOMAIN v => v.description <= DescriptionMax
  /\ "floorPlan" \in DOMAIN v => v.floorPlan.orientation \in Orientations
  /\ v.status \in Statuses
  /\ "vastuAnalysis" \in DOMAIN v =>
       v.vastuAnalysis.overallScore >= 0 /\ v.vastuAnalysis.overallScore <= 100

\* a save() that writes every path of the in-memory document
SaveDelta_AllPaths(stored, d) ==
  [p \in DOMAIN stored |-> IF p \in DOMAIN d.val THEN d.val[p] ELSE stored[p]]

\* what save() leaves in the collection: $set of the modified paths only
SaveDelta(stored, d) ==
  [p \in DOMAIN stored |-> IF p \in d.mod THEN d.val[p] ELSE stored[p]]

\* save() succeeds when validation passes, the document still exists and the
\* database accepts the write (dbOk).  A rejected save() writes nothing and
\* leaves the in-memory document with its values and modified paths.
CanSave(id, d, validate, dbOk) ==
  /\ dbOk
  /\ id \in DOMAIN db
  /\ (validate => SchemaValid(d.val))

\* the collection after a successful save()
Saved(id, d) == [db EXCEPT ![id] = SaveDelta(db[id], d)]

(* --------------------------- middleware/auth.js ------------------------ *)

isPremium(u) == u \in PremiumUsers

\* protect: 401 without a principal
protect(u) == IF u = Anonymous THEN 401 ELSE 0

\* requirePremium: 403 unless the principal is premium
requirePremium(u) ==
  IF u = Anonymous THEN 401
  ELSE IF ~isPremium(u) THEN 403
  ELSE 0

(* ----------------------------- request slots --------------------------- *)

IdleSlot == [op |-> "none", id |-> "a1", pc |-> "idle", doc |-> NoMem,
             due |-> NoTime]

\* a request takes the first idle slot
Free(r) ==
  /\ slot[r].pc = "idle"
  /\ \A q \in Slots : q < r => slot[q].pc # "idle"

\* a handler suspended after findById, holding its in-memory document
Loaded(op, id) ==
  [op |-> op, id |-> id, pc |-> "loaded", doc |-> MemDoc(db[id], op),
   due |-> NoTime]

\* increment requests that passed their checks: answered 200 or between
\* findById and save()
Admitted(id) ==
  acks[id]["views"] + acks[id]["likes"] + acks[id]["shares"]
    + Cardinality({r \in Slots : /\ slot[r].op \in {"view", "like", "share"}
                                  /\ slot[r].pc = "loaded"
                                  /\ slot[r].id = id})

\* the user documents of the principals: active, the password (by its
\* number), and the reset token hash and its expiry, NoTime when unset
ActiveUser == [isActive |-> TRUE, role |-> "user", password |-> 0,
               resetPasswordToken |-> NoTime, resetPasswordExpire |-> NoTime]
SeededAccounts == [u \in Users |-> ActiveUser]
\* an auth request slot at rest; it keeps the answer and the mail outcome of
\* the request it served last
IdleAuth == [op |-> "none", pc |-> "idle", user |-> Undef, token |-> NoTime,
             mail |-> "none", answer |-> 0]
\* no auth request in flight, no reset token generated, no reset email
\* delivered, no reset answered 200 and no JWT handed out
NoAuthReqs == [slots |-> [r \in AuthSlots |-> IdleAuth], issued |-> 0,
               sent |-> {}, resets |-> <<>>, sessions |-> {}]
\* no request in dispatch
NoRoute == [router |-> "none", method |-> "GET", path |-> <<>>, layer |-> 0,
            handler |-> "none"]
\* no call made
NoCall == [fn |-> "none"]

\* an empty Blob Store: the blobs it holds, the destroy calls it has
\* received and the number of public ids it has issued
NoBlobs == [stored |-> {}, destroyed |-> {}, count |-> 0]
\* no upload request in flight: uploadedFiles, the position of the cleanup
\* loop, the error caught, the error answered and the batches so far
IdleUpload == [pc |-> "idle", user |-> Anonymous, todo |-> 0,
               uploaded |-> <<>>, cleaned |-> 0, error |-> "none",
               answer |-> "none", batches |-> 0]
\* no page fetched
NoQuery == [limit |-> 0, minScore |-> NoTime, sort |-> "-createdAt"]
NoListing == [query |-> NoQuery, pages |-> <<>>]

Init ==
  /\ db = [i \in {} |-> 0]
  /\ created = {}
  /\ now = 0
  /\ slot = [r \in Slots |-> IdleSlot]
  /\ runs = [id \in AnalysisIds |-> 0]
  /\ acks = [id \in AnalysisIds |-> [c \in CounterNames |-> 0]]
  /\ cloud = NoBlobs
  /\ upload = IdleUpload
  /\ listing = NoListing
  /\ accounts = SeededAccounts
  /\ authReq = NoAuthReqs
  /\ route = NoRoute
  /\ call = NoCall

\* time passes
Tick ==
  /\ now < MaxTicks * TickMs
  /\ now' = now + TickMs
  /\ UNCHANGED <<db, created, slot, runs, acks, cloud, upload, listing,
               accounts, authReq, route, call>>

(* --------------------------- routes/analysis.js ------------------------ *)

\* The status code a handler answers with before it changes anything is an
\* operator of the request and the collection; 0 stands for no rejection.

\* POST /api/analysis: protect and validateAnalysis (title length,
\* orientation, and length and width of the top-level dimensions at least 1
\* when sent; neither area nor the rooms are validated)
CreateChecks(u, title, plan) ==
  IF protect(u) # 0 THEN protect(u)
  ELSE IF title < 3 \/ title > TitleMax THEN 400
  ELSE IF plan.orientation \notin Orientations THEN 400
  ELSE IF \/ plan.dimensions.length # NoTime /\ plan.dimensions.length < 1
          \/ plan.dimensions.width # NoTime /\ plan.dimensions.width < 1
    THEN 400
  ELSE 0

\* POST /api/analysis: Analysis.create stores the request's floor plan after
\* the pre-save hook
CreateAnalysis(u, id, title, isPublic, plan) ==
  /\ id \notin created
  /\ CreateChecks(u, title, plan) = 0
  /\ db' = [i \in DOMAIN db \cup {id} |->
              IF i = id
                THEN analysisSchema(u, title, NoTime, isPublic, <<>>, <<>>,
                                    HookPlan(plan))
                ELSE db[i]]
  /\ created' = created \cup {id}
  /\ UNCHANGED <<now, slot, runs, acks, cloud, upload, listing,
               accounts, authReq, route, call>>

\* the owner check without the comparison of the principal
OwnerCheck_NoOwner(u, id) ==
  IF id \notin DOMAIN db THEN 404
  ELSE 0

\* the owner check of PUT, DELETE and POST /:id/start, after findById:
\* 404 for a missing document, 403 for a principal who is not the owner
OwnerCheck(u, id) ==
  IF id \notin DOMAIN db THEN 404
  ELSE IF db[id].user # u THEN 403
  ELSE 0

\* PUT and DELETE /api/analysis/:id: protect, findById and the owner check
OwnerChecks(u, id) ==
  IF protect(u) # 0 THEN protect(u) ELSE OwnerCheck(u, id)

\* PUT /api/analysis/:id, up to findById and the owner check
UpdateLoad(r, u, id) ==
  /\ Free(r)
  /\ OwnerChecks(u, id) = 0
  /\ slot' = [slot EXCEPT ![r] = Loaded("update", id)]
  /\ UNCHANGED <<db, created, now, runs, acks, cloud, upload, listing,
               accounts, authReq, route, call>>

\* the assignments of PUT /api/analysis/:id
ApplyUpdate(d, body) ==
  LET d1 == IF "title" \in body.has /\ body.title > 0
              THEN SetPath(d, "title", body.title) ELSE d
      d2 == IF "description" \in body.has
              THEN SetPath(d1, "description", body.description) ELSE d1
      d3 == IF "isPublic" \in body.has
              THEN SetPath(d2, "isPublic", body.isPublic) ELSE d2
  IN IF "tags" \in body.has THEN SetPath(d3, "tags", body.tags) ELSE d3

\* PUT /api/analysis/:id, the assignments and analysis.save()
UpdateSave(r, body, dbOk) ==
  /\ slot[r].op = "update" /\ slot[r].pc = "loaded"
  /\ LET id == slot[r].id
         d == preSave(ApplyUpdate(slot[r].doc, body))
     IN IF CanSave(id, d, TRUE, dbOk)
          THEN db' = Saved(id, d)
          ELSE UNCHANGED db
  /\ slot' = [slot EXCEPT ![r] = IdleSlot]
  /\ UNCHANGED <<created, now, runs, acks, cloud, upload, listing,
               accounts, authReq, route, call>>

\* DELETE /api/analysis/:id: findById, the owner check and
\* Analysis.findByIdAndDelete.  The owner of a document never changes and
\* deleting a document that is already gone still answers 200, so the two
\* round trips act as one at the time of the second.
DeleteAnalysis(u, id, dbOk) ==
  /\ OwnerChecks(u, id) = 0
  /\ dbOk
  /\ db' = [i \in DOMAIN db \ {id} |-> db[i]]
  /\ UNCHANGED <<created, now, slot, runs, acks, cloud, upload, listing,
               accounts, authReq, route, call>>

\* the start checks without the status check
StartChecks_NoStatusCheck(u, id) ==
  IF protect(u) # 0 THEN protect(u)
  ELSE IF requirePremium(u) # 0 THEN requirePremium(u)
  ELSE OwnerCheck(u, id)

\* POST /api/analysis/:id/start: protect, requirePremium, findById, the
\* owner check and the status check
StartChecks(u, id) ==
  IF protect(u) # 0 THEN protect(u)
  ELSE IF requirePremium(u) # 0 THEN requirePremium(u)
  ELSE IF OwnerCheck(u, id) # 0 THEN OwnerCheck(u, id)
  ELSE IF db[id].status # "pending" THEN 400
  ELSE 0

\* POST /api/analysis/:id/start, up to the status check
StartLoad(r, u, id) ==
  /\ Free(r)
  /\ StartChecks(u, id) = 0
  /\ slot' = [slot EXCEPT ![r] = Loaded("start", id)]
  /\ UNCHANGED <<db, created, now, runs, acks, cloud, upload, listing,
               accounts, authReq, route, call>>

\* POST /api/analysis/:id/start: updateStatus('processing'), setTimeout and
\* the response, which serialises the in-memory document
StartSave(r, dbOk) ==
  /\ slot[r].op = "start" /\ slot[r].pc = "loaded"
  /\ LET id == slot[r].id
         d == preSave(updateStatus(slot[r].doc, "processing", now))
     IN IF CanSave(id, d, TRUE, dbOk)
          THEN /\ db' = Saved(id, d)
               /\ slot' = [slot EXCEPT ![r] =
                            [op |-> "start", id |-> id, pc |-> "scheduled",
                             doc |-> [val |-> d.val, mod |-> {}],
                             due |-> now + ProcessingDelay]]
               /\ runs' = [runs EXCEPT ![id] = @ + 1]
          ELSE /\ slot' = [slot EXCEPT ![r] = IdleSlot]
               /\ UNCHANGED <<db, runs>>
  /\ UNCHANGED <<created, now, acks, cloud, upload, listing,
               accounts, authReq, route, call>>

\* the simulated scoring result for one draw of Math.random()
mockResults(rnd) ==
  [overallScore |-> ((rnd * 40) \div 100) + 60, summary |-> SummaryText]

\* the setTimeout callback, try block: attach the result and
\* updateStatus('completed')
ScoringComplete(r, rnd, dbOk) ==
  /\ slot[r].pc = "scheduled"
  /\ now >= slot[r].due
  /\ LET id == slot[r].id
         d == preSave(updateStatus(SetPath(slot[r].doc, "vastuAnalysis",
                                           mockResults(rnd)),
                                   "completed", now))
     IN IF CanSave(id, d, TRUE, dbOk)
          THEN /\ db' = Saved(id, d)
               /\ slot' = [slot EXCEPT ![r] = IdleSlot]
          ELSE /\ slot' = [slot EXCEPT ![r].pc = "catch", ![r].doc = d]
               /\ UNCHANGED db
  /\ UNCHANGED <<created, now, runs, acks, cloud, upload, listing,
               accounts, authReq, route, call>>

\* the setTimeout callback, catch block: updateStatus('failed'); a rejected
\* save() here is an unhandled rejection
ScoringFail(r, dbOk) ==
  /\ slot[r].pc = "catch"
  /\ LET id == slot[r].id
         d == preSave(updateStatus(slot[r].doc, "failed", now))
     IN IF CanSave(id, d, TRUE, dbOk)
          THEN /\ db' = Saved(id, d)
               /\ slot' = [slot EXCEPT ![r] = IdleSlot]
          ELSE /\ slot' = [slot EXCEPT ![r] =
                            [IdleSlot EXCEPT !.op = "unhandledRejection"]]
               /\ UNCHANGED db
  /\ UNCHANGED <<created, now, runs, acks, cloud, upload, listing,
               accounts, authReq, route, call>>

\* the access check without the isPublic test
ViewChecks_NoVisibility(u, id) ==
  IF id \notin DOMAIN db THEN 404
  ELSE 0

\* GET /api/analysis/:id: findById and the access check
ViewChecks(u, id) ==
  IF id \notin DOMAIN db THEN 404
  ELSE IF ~db[id].isPublic /\ db[id].user # u THEN 403
  ELSE 0

\* GET /api/analysis/:id by a caller who is not the owner, up to the access
\* check (the owner is answered without a write)
ViewLoad(r, u, id) ==
  /\ Free(r)
  /\ Admitted(id) < MaxCount
  /\ ViewChecks(u, id) = 0
  /\ db[id].user # u
  /\ slot' = [slot EXCEPT ![r] = Loaded("view", id)]
  /\ UNCHANGED <<db, created, now, runs, acks, cloud, upload, listing,
               accounts, authReq, route, call>>

\* POST /api/analysis/:id/like and /share: protect, findById and the
\* isPublic check
LikeShareChecks(u, id) ==
  IF protect(u) # 0 THEN protect(u)
  ELSE IF id \notin DOMAIN db THEN 404
  ELSE IF ~db[id].isPublic THEN 403
  ELSE 0

\* POST /api/analysis/:id/like and /share, up to the isPublic check
LikeShareLoad(r, op, u, id) ==
  /\ Free(r)
  /\ op \in {"like", "share"}
  /\ Admitted(id) < MaxCount
  /\ LikeShareChecks(u, id) = 0
  /\ slot' = [slot EXCEPT ![r] = Loaded(op, id)]
  /\ UNCHANGED <<db, created, now, runs, acks, cloud, upload, listing,
               accounts, authReq, route, call>>

\* incrementViews(), like() or share() and the response
IncrementSave(r, dbOk) ==
  /\ slot[r].op \in {"view", "like", "share"}
  /\ slot[r].pc = "loaded"
  /\ LET id == slot[r].id
         c == slot[r].op \o "s"
         d == preSave(Increment(slot[r].doc, c))
     IN IF CanSave(id, d, FALSE, dbOk)
          THEN /\ db' = Saved(id, d)
               /\ acks' = [acks EXCEPT ![id][c] = @ + 1]
          ELSE UNCHANGED <<db, acks>>
  /\ slot' = [slot EXCEPT ![r] = IdleSlot]
  /\ UNCHANGED <<created, now, runs, cloud, upload, listing,
               accounts, authReq, route, call>>

(* ---------------------------- routes/upload.js ------------------------- *)

\* the document POST /api/upload/files hands to Analysis.create: no floor
\* plan, so floorPlan.orientation is unset
UploadDoc(u, files) ==
  analysisSchema(u, 10, 0, FALSE, <<>>, files, Plan(Undef, NoDim, <<>>))

\* POST /api/upload/files: protect and the check for an empty batch
UploadChecks(u, n) ==
  IF protect(u) # 0 THEN protect(u)
  ELSE IF n = 0 THEN 400
  ELSE 0

\* POST /api/upload/files, up to the start of the loop over req.files
UploadBegin(u, n) ==
  /\ upload.pc \in {"idle", "done"}
  /\ upload.batches < MaxUploads
  /\ UploadChecks(u, n) = 0
  /\ upload' = [IdleUpload EXCEPT !.pc = "uploading", !.user = u, !.todo = n,
                                  !.batches = upload.batches + 1]
  /\ UNCHANGED <<db, created, now, slot, runs, acks, cloud, listing,
               accounts, authReq, route, call>>

\* one round of the loop: uploadToCloudinary stores the file under a new
\* public id, or throws 'File upload failed'
UploadFile(ok) ==
  /\ upload.pc = "uploading" /\ upload.todo > 0
  /\ IF ok
       THEN /\ cloud' = [cloud EXCEPT !.stored = @ \cup {cloud.count + 1},
                                      !.count = @ + 1]
            /\ upload' = [upload EXCEPT
                            !.uploaded = Append(@, cloud.count + 1),
                            !.todo = @ - 1]
       ELSE /\ upload' = [upload EXCEPT !.pc = "cleanup",
                                        !.error = "File upload failed"]
            /\ UNCHANGED cloud
  /\ UNCHANGED <<db, created, now, slot, runs, acks, listing,
               accounts, authReq, route, call>>

\* Analysis.create after the loop, and the 201 response
UploadCreate(dbOk) ==
  /\ upload.pc = "uploading" /\ upload.todo = 0
  /\ LET doc == UploadDoc(upload.user, upload.uploaded) IN
     IF SchemaValid(doc) /\ dbOk /\ AnalysisIds \ created # {}
       THEN /\ \E id \in AnalysisIds \ created :
                 /\ db' = [i \in DOMAIN db \cup {id} |->
                             IF i = id THEN doc ELSE db[i]]
                 /\ created' = created \cup {id}
            /\ upload' = [upload EXCEPT !.pc = "done", !.answer = "created"]
       ELSE /\ upload' = [upload EXCEPT
                            !.pc = "cleanup",
                            !.error = IF SchemaValid(doc) THEN "MongoError"
                                      ELSE "ValidationError"]
            /\ UNCHANGED <<db, created>>
  /\ UNCHANGED <<now, slot, runs, acks, cloud, listing,
               accounts, authReq, route, call>>

\* a cleanup loop whose failing destroy call is thrown on
UploadCleanup_NoCatch(ok) ==
  /\ upload.pc = "cleanup" /\ upload.cleaned < Len(upload.uploaded)
  /\ LET f == upload.uploaded[upload.cleaned + 1] IN
       /\ cloud' = [cloud EXCEPT
                      !.destroyed = @ \cup {f},
                      !.stored = IF ok THEN @ \ {f} ELSE @]
       /\ upload' = IF ok THEN [upload EXCEPT !.cleaned = @ + 1]
                    ELSE [upload EXCEPT !.pc = "done",
                                        !.answer = "cleanupError"]
  /\ UNCHANGED <<db, created, now, slot, runs, acks, listing,
               accounts, authReq, route, call>>

\* one round of the cleanup loop of the catch block: a destroy call for the
\* next uploaded file; a failing call is logged and the loop goes on
UploadCleanup(ok) ==
  /\ upload.pc = "cleanup" /\ upload.cleaned < Len(upload.uploaded)
  /\ LET f == upload.uploaded[upload.cleaned + 1] IN
       /\ cloud' = [cloud EXCEPT
                      !.destroyed = @ \cup {f},
                      !.stored = IF ok THEN @ \ {f} ELSE @]
       /\ upload' = [upload EXCEPT !.cleaned = @ + 1]
  /\ UNCHANGED <<db, created, now, slot, runs, acks, listing,
               accounts, authReq, route, call>>

\* the end of the catch block: throw error, answered by the error handler
UploadThrow ==
  /\ upload.pc = "cleanup" /\ upload.cleaned = Len(upload.uploaded)
  /\ upload' = [upload EXCEPT !.pc = "done", !.answer = upload.error]
  /\ UNCHANGED <<db, created, now, slot, runs, acks, cloud, listing,
               accounts, authReq, route, call>>

\* every step but the creation of an Analysis
Requests ==
  \/ Tick
  \/ \E r \in Slots, u \in Users \cup {Anonymous}, id \in AnalysisIds :
       \/ UpdateLoad(r, u, id)
       \/ StartLoad(r, u, id)
       \/ ViewLoad(r, u, id)
       \/ \E op \in {"like", "share"} : LikeShareLoad(r, op, u, id)
  \/ \E u \in Users \cup {Anonymous}, id \in AnalysisIds, dbOk \in BOOLEAN :
       DeleteAnalysis(u, id, dbOk)
  \/ \E r \in Slots, dbOk \in BOOLEAN :
       \/ \E body \in UpdateBodies : UpdateSave(r, body, dbOk)
       \/ StartSave(r, dbOk)
       \/ \E rnd \in RandomSamples : ScoringComplete(r, rnd, dbOk)
       \/ ScoringFail(r, dbOk)
       \/ IncrementSave(r, dbOk)

Next ==
  \/ \E u \in Users \cup {Anonymous}, id \in AnalysisIds,
        title \in CreateTitles, isPublic \in BOOLEAN, plan \in BasePlans :
       CreateAnalysis(u, id, title, isPublic, plan)
  \/ Requests

Spec == Init /\ [][Next]_vars

\* ids of Analyses the collection holds when the server starts
StoredIds == {"a0"}

\* the upload flow next to creation and deletion of Analyses
NextUpload ==
  \/ \E u \in Users \cup {Anonymous}, n \in 0..MaxFiles : UploadBegin(u, n)
  \/ \E ok \in BOOLEAN : UploadFile(ok)
  \/ \E dbOk \in BOOLEAN : UploadCreate(dbOk)
  \/ \E ok \in BOOLEAN : UploadCleanup(ok)
  \/ UploadThrow
  \/ \E u \in Users \cup {Anonymous}, id \in AnalysisIds,
        title \in CreateTitles, isPublic \in BOOLEAN, plan \in BasePlans :
       CreateAnalysis(u, id, title, isPublic, plan)
  \/ \E u \in Users \cup {Anonymous}, id \in AnalysisIds \cup StoredIds,
        dbOk \in BOOLEAN :
       DeleteAnalysis(u, id, dbOk)

SpecUpload == Init /\ [][NextUpload]_vars

\* a collection that holds an Analysis with one file reference, and the
\* Blob Store that holds its blob
InitStored ==
  /\ db = [i \in StoredIds |->
             analysisSchema("alice", 10, 0, FALSE, <<>>, <<1>>,
                            Plan("north", NoDim, <<>>))]
  /\ created = StoredIds
  /\ now = 0
  /\ slot = [r \in Slots |-> IdleSlot]
  /\ runs = [id \in AnalysisIds |-> 0]
  /\ acks = [id \in AnalysisIds |-> [c \in CounterNames |-> 0]]
  /\ cloud = [stored |-> {1}, destroyed |-> {}, count |-> 1]
  /\ upload = IdleUpload
  /\ listing = NoListing
  /\ accounts = SeededAccounts
  /\ authReq = NoAuthReqs
  /\ route = NoRoute
  /\ call = NoCall

SpecStored == InitStored /\ [][NextUpload]_vars

(* ----------------------- GET /api/analysis (public list) --------------- *)

ListIds == {"l1", "l2", "l3"}
\* overallScore values of the listed Analyses
ListScores == {0, 79, 80}
\* createdAt values of the listed Analyses, ms
CreatedAts == {0, TickMs}
\* values of the limit query parameter
ListLimits == {1, 2}
\* values of the minScore query parameter, as decimal numerals in tenths:
\* "79" and "79.5"; NoTime when the parameter is not sent
MinScores == {NoTime, 790, 795}
\* values of the sort query parameter
ListSorts == {"-createdAt", "createdAt"}

\* parseInt of a decimal numeral given in tenths: the digits before the point
parseInt(tenths) == tenths \div 10

\* a stored Analysis with the createdAt that timestamps:true maintains
ListDoc(isPublic, score, t) ==
  [analysisSchema("alice", 10, NoTime, isPublic, <<>>, <<>>,
                  Plan("north", NoDim, <<>>))
     EXCEPT !.vastuAnalysis.overallScore = score]
    @@ [createdAt |-> t]

\* Analysis.find(query) and countDocuments(query): isPublic true, and
\* overallScore $gte parseInt(minScore) when minScore is sent
Matching(q) ==
  {id \in DOMAIN db :
     /\ db[id].isPublic
     /\ (q.minScore # NoTime
           => db[id].vastuAnalysis.overallScore >= parseInt(q.minScore))}

\* .sort(sort): the orders of a result set that follow the sort key; equal
\* keys come in an order the database is free to choose per query
SortedBy(sort, S) ==
  {f \in [1..Cardinality(S) -> S] :
     /\ \A i, j \in DOMAIN f : i # j => f[i] # f[j]
     /\ \A i, j \in DOMAIN f :
          i < j => IF sort = "createdAt"
                     THEN db[f[i]].createdAt <= db[f[j]].createdAt
                     ELSE db[f[i]].createdAt >= db[f[j]].createdAt}

\* Math.ceil(total / limit)
PageCount(total, limit) == (total + limit - 1) \div limit

\* GET /api/analysis?page=&limit=&minScore=&sort= for the page after the ones
\* the client has: find, sort, skip and limit
ListPage(u, q) ==
  /\ Len(listing.pages) = 0 \/ q = listing.query
  /\ LET page == Len(listing.pages) + 1
         skip == (page - 1) * q.limit
         total == Cardinality(Matching(q))
         last == IF skip + q.limit < total THEN skip + q.limit ELSE total
     IN /\ page = 1 \/ page <= PageCount(total, q.limit)
        /\ \E ord \in SortedBy(q.sort, Matching(q)) :
             listing' = [query |-> q,
                         pages |-> Append(listing.pages,
                                          SubSeq(ord, skip + 1, last))]
  /\ UNCHANGED <<db, created, now, slot, runs, acks, cloud, upload,
               accounts, authReq, route, call>>

\* a collection of three Analyses
InitList ==
  /\ db \in [ListIds -> {ListDoc(p, sc, t) :
                           p \in BOOLEAN, sc \in ListScores, t \in CreatedAts}]
  /\ created = ListIds
  /\ now = 0
  /\ slot = [r \in Slots |-> IdleSlot]
  /\ runs = [id \in AnalysisIds |-> 0]
  /\ acks = [id \in AnalysisIds |-> [c \in CounterNames |-> 0]]
  /\ cloud = NoBlobs
  /\ upload = IdleUpload
  /\ listing = NoListing
  /\ accounts = SeededAccounts
  /\ authReq = NoAuthReqs
  /\ route = NoRoute
  /\ call = NoCall

NextList ==
  \E u \in Users \cup {Anonymous}, limit \in ListLimits,
     minScore \in MinScores, sort \in ListSorts :
    ListPage(u, [limit |-> limit, minScore |-> minScore, sort |-> sort])

SpecList == InitList /\ [][NextList]_vars

\* the lifecycle with partial updates, and likes as the only increments
NextUpdate ==
  \/ Tick
  \/ \E u \in Users \cup {Anonymous}, id \in AnalysisIds,
        title \in CreateTitles, isPublic \in BOOLEAN, plan \in BasePlans :
       CreateAnalysis(u, id, title, isPublic, plan)
  \/ \E r \in Slots, u \in Users \cup {Anonymous}, id \in AnalysisIds :
       \/ UpdateLoad(r, u, id)
       \/ StartLoad(r, u, id)
       \/ LikeShareLoad(r, "like", u, id)
  \/ \E u \in Users \cup {Anonymous}, id \in AnalysisIds, dbOk \in BOOLEAN :
       DeleteAnalysis(u, id, dbOk)
  \/ \E r \in Slots, dbOk \in BOOLEAN :
       \/ \E body \in PartialBodies : UpdateSave(r, body, dbOk)
       \/ StartSave(r, dbOk)
       \/ \E rnd \in RandomSamples : ScoringComplete(r, rnd, dbOk)
       \/ ScoringFail(r, dbOk)
       \/ IncrementSave(r, dbOk)

SpecUpdate == Init /\ [][NextUpdate]_vars

\* the lifecycle with every floor plan a client may send
NextFloorPlan ==
  \/ \E u \in Users \cup {Anonymous}, id \in AnalysisIds,
        title \in CreateTitles, isPublic \in BOOLEAN, plan \in FloorPlans :
       CreateAnalysis(u, id, title, isPublic, plan)
  \/ Requests

SpecFloorPlan == Init /\ [][NextFloorPlan]_vars

TypeOK ==
  /\ DOMAIN db \subseteq created
  /\ created \subseteq AnalysisIds
  /\ \A id \in DOMAIN db : db[id].status \in Statuses
  /\ now \in 0..(MaxTicks * TickMs)

(* ------------------------------ properties ----------------------------- *)

LegalTransitions ==
  { <<"pending", "processing">>, <<"processing", "completed">>,
    <<"processing", "failed">> }

\* a scoring run of id that has yet to end: its timer is armed or its
\* callback is between the try and the catch block
ScoringPending(id) ==
  \E r \in Slots : /\ slot[r].op = "start" /\ slot[r].id = id
                   /\ slot[r].pc \in {"scheduled", "catch"}

\* C1: every stored status is one of pending, processing, completed and
\* failed, and in every step the stored status of an Analysis stays as it is
\* or moves along pending->processing, processing->completed or
\* processing->failed.
C1_StatusTransitions ==
  /\ [](\A id \in DOMAIN db : db[id].status \in Statuses)
  /\ [][\A id \in DOMAIN db \cap DOMAIN db' :
          \/ db'[id].status = db[id].status
          \/ <<db[id].status, db'[id].status>> \in LegalTransitions]_vars

\* C2: of the start requests for one Analysis, interleaved in any order, at
\* most one performs pending->processing and arms a scoring run.
C2_OneScoringRun == \A id \in AnalysisIds : runs[id] <= 1

\* C3: a start request on an Analysis that is not pending is rejected (with
\* 400 "already being processed or completed" when the caller is the premium
\* owner): no request passes the start checks on such a document, so no
\* scoring run is armed by it and no field is written by it.
C3_StartOnNonPendingRejected ==
  /\ [](\A id \in DOMAIN db, u \in Users \cup {Anonymous} :
          db[id].status # "pending" =>
            /\ StartChecks(u, id) # 0
            /\ (u = db[id].user /\ isPremium(u) => StartChecks(u, id) = 400))
  /\ [][\A r \in Slots :
          (slot[r].pc = "idle" /\ slot'[r].op = "start" /\ slot'[r].pc = "loaded")
            => /\ slot'[r].id \in DOMAIN db
               /\ db[slot'[r].id].status = "pending"
               /\ UNCHANGED <<db, runs>>]_vars

\* C3 witness: the first start has returned and its scoring run has completed;
\* a second start by the premium owner is answered 400.
C3_Witness ==
  \E id \in DOMAIN db :
    /\ db[id].status = "completed"
    /\ runs[id] = 1
    /\ \A r \in Slots : slot[r].pc = "idle"
    /\ StartChecks(db[id].user, id) = 400

\* C4: completedAt is set if and only if status is completed.
C4_CompletedAtIffCompleted ==
  \A id \in DOMAIN db :
    (db[id].completedAt # NoTime) <=> (db[id].status = "completed")

\* C5: an Analysis in processing always has a scoring run that has yet to
\* end; only a scoring run moves an Analysis out of processing, so without
\* one it stays in processing forever.
C5_ProcessingResolves ==
  \A id \in DOMAIN db : db[id].status = "processing" => ScoringPending(id)

C7_CompleteTransition ==
  [][\A id \in DOMAIN db \cap DOMAIN db' :
       (db[id].status # "completed" /\ db'[id].status = "completed")
         => /\ db'[id].vastuAnalysis.summary # Undef
            /\ db'[id].vastuAnalysis.overallScore \in 0..100
            /\ db'[id].completedAt = now
            /\ db'[id].processingStartedAt # NoTime
            /\ db'[id].processingTime =
                 RoundSeconds(db'[id].completedAt - db'[id].processingStartedAt)
            /\ db'[id].processingTime >= 0]_vars

\* C8: an Analysis in status failed has no result payload and carries the
\* processingStartedAt that start set.
C8_FailedHasNoResult ==
  \A id \in DOMAIN db :
    db[id].status = "failed"
      => /\ db[id].vastuAnalysis = [overallScore |-> 0, summary |-> Undef]
         /\ db[id].processingStartedAt # NoTime

\* C9: each counter of an Analysis equals the number of increment requests
\* of that counter that were answered 200: no increment is lost.
C9_NoLostIncrement ==
  \A id \in DOMAIN db : \A c \in CounterNames : db[id][c] = acks[id][c]

\* C10: the counters are not negative and no step lowers a stored counter.
C10_CountersMonotonic ==
  /\ [](\A id \in DOMAIN db : \A c \in CounterNames : db[id][c] >= 0)
  /\ [][\A id \in DOMAIN db \cap DOMAIN db' : \A c \in CounterNames :
          db'[id][c] >= db[id][c]]_vars

C12_NonOwnerForbidden ==
  /\ [](\A id \in DOMAIN db, u \in Users :
          u # db[id].user
            => OwnerChecks(u, id) = 403 /\ StartChecks(u, id) = 403)
  /\ [][\A id \in DOMAIN db, u \in Users :
          u # db[id].user
            => /\ \A r \in Slots : ~UpdateLoad(r, u, id) /\ ~StartLoad(r, u, id)
               /\ \A dbOk \in BOOLEAN : ~DeleteAnalysis(u, id, dbOk)]_vars

\* C12 witness: a public Analysis whose owner's update was persisted, while a
\* premium principal who is not the owner is answered 403 by update, delete
\* and start.
C12_Witness ==
  \E id \in DOMAIN db, u \in Users :
    /\ u # db[id].user
    /\ isPremium(u)
    /\ db[id].isPublic
    /\ db[id].title = 20
    /\ OwnerChecks(u, id) = 403
    /\ StartChecks(u, id) = 403

\* C13: a view request that got past the access check is always answered
\* with the Analysis, also when the save of the views increment is rejected,
\* and then views has grown by one.
C13_ViewBestEffort ==
  [][\A r \in Slots :
       (slot[r].op = "view" /\ slot[r].pc = "loaded" /\ slot'[r].pc = "idle")
         => /\ acks'[slot[r].id]["views"] = acks[slot[r].id]["views"] + 1
            /\ slot[r].id \in DOMAIN db'
            /\ db'[slot[r].id].views = db[slot[r].id].views + 1]_vars

\* every dimensions sub-document of a stored Analysis: the top-level one and
\* the one of each room
AllDims(a) ==
  {a.floorPlan.dimensions}
    \cup {a.floorPlan.rooms[i] : i \in DOMAIN a.floorPlan.rooms}

\* C14: in every stored Analysis, after whichever operation persisted it,
\* area equals length times width in the top-level dimensions and in the
\* dimensions of every room whenever both length and width are present.
C14_AreaIsProduct ==
  \A id \in DOMAIN db : \A d \in AllDims(db[id]) :
    (d.length # NoTime /\ d.width # NoTime) => d.area = d.length * d.width

\* C15: a stored Analysis has no area, at top level and in each room, where
\* length or width is absent, whatever area the caller sent.
C15_AreaNotSettable ==
  \A id \in DOMAIN db : \A d \in AllDims(db[id]) :
    (d.length = NoTime \/ d.width = NoTime) => d.area = NoTime

\* C16: like and share are answered 403 on a private Analysis for every
\* principal, the owner included, and get past their checks only on a public
\* one; a like or share that is answered 200 has raised exactly its counter
\* of the stored Analysis by one and changed no other field.
C16_LikeShare ==
  /\ [](\A id \in DOMAIN db, u \in Users :
          ~db[id].isPublic => LikeShareChecks(u, id) = 403)
  /\ [][\A r \in Slots :
          /\ (slot[r].pc = "idle" /\ slot'[r].op \in {"like", "share"}
                /\ slot'[r].pc = "loaded")
               => /\ slot'[r].id \in DOMAIN db
                  /\ db[slot'[r].id].isPublic
                  /\ UNCHANGED db
          /\ (slot[r].op \in {"like", "share"} /\ slot[r].pc = "loaded"
                /\ slot'[r].pc = "idle" /\ acks' # acks)
               => /\ slot[r].id \in DOMAIN db'
                  /\ db'[slot[r].id] =
                       [db[slot[r].id] EXCEPT ![slot[r].op \o "s"] = @ + 1]
       ]_vars

\* C17: the owner gets past the checks of update in every status, and a
\* step that saves an update changes no field of the stored Analysis other
\* than the fields of title, description, isPublic and tags that its body
\* supplies: status, the timestamps, the result, the counters, the files and
\* the floor plan stay as stored, also while a scoring run is pending.
C17_UpdateFrame ==
  /\ [](\A id \in DOMAIN db : OwnerChecks(db[id].user, id) = 0)
  /\ [][\A r \in Slots, body \in PartialBodies :
          (slot[r].op = "update" /\ slot[r].pc = "loaded"
             /\ slot'[r].pc = "idle" /\ db' # db
             /\ UpdateSave(r, body, TRUE))
            => /\ slot[r].id \in DOMAIN db'
               /\ \A p \in DOMAIN db[slot[r].id] :
                    p \notin body.has
                      => db'[slot[r].id][p] = db[slot[r].id][p]]_vars

\* C17 witness: the owner's update was persisted and the Analysis is in
\* processing with its scoring run armed, while a further update that read
\* the Analysis in processing is about to save.
C17_Witness ==
  \E id \in DOMAIN db, r \in Slots :
    /\ db[id].title = 20
    /\ db[id].status = "processing"
    /\ ScoringPending(id)
    /\ slot[r].op = "update" /\ slot[r].pc = "loaded" /\ slot[r].id = id
    /\ slot[r].doc.val.status = "processing"

C19_UploadAbort ==
  /\ [](upload.pc = "done" /\ upload.error = "File upload failed"
          => /\ upload.answer = "File upload failed"
             /\ \A i \in DOMAIN upload.uploaded :
                  upload.uploaded[i] \in cloud.destroyed)
  /\ [][(upload' # upload /\ upload'.error # "none")
          => UNCHANGED <<db, created>>]_vars

\* C19 witness: the second file of a batch failed to store, the destroy call
\* for the first file failed, and the request was answered with the upload
\* error.
C19_Witness ==
  /\ upload.pc = "done"
  /\ upload.error = "File upload failed"
  /\ upload.answer = "File upload failed"
  /\ Len(upload.uploaded) = 1
  /\ upload.uploaded[1] \in cloud.stored \cap cloud.destroyed

\* the Analyses the claim expects in the list: public, and with overallScore
\* at least the minScore that was sent
Wanted(q) ==
  {id \in DOMAIN db :
     /\ db[id].isPublic
     /\ (q.minScore # NoTime
           => db[id].vastuAnalysis.overallScore * 10 >= q.minScore)}

\* C20: every page of the public list holds at most limit entries, each of
\* them a public Analysis whose overallScore is at least the minScore sent,
\* and once the client has fetched all pages every such Analysis is on one of
\* them.
C20_PublicList ==
  LET q == listing.query
      n == Len(listing.pages)
  IN /\ \A i \in 1..n :
          /\ Len(listing.pages[i]) <= q.limit
          /\ \A j \in DOMAIN listing.pages[i] : listing.pages[i][j] \in Wanted(q)
     /\ (n >= 1 /\ n * q.limit >= Cardinality(Wanted(q)))
          => \A id \in Wanted(q) :
               \E i \in 1..n : \E j \in DOMAIN listing.pages[i] :
                 listing.pages[i][j] = id

\* C21: a step that inserts an Analysis stores it for an authenticated
\* owner in status pending with counters 0, no processingStartedAt and no
\* completedAt, a title of 3 to 100 characters and a valid orientation; the
\* direct flow answers 400 for a title outside 3..100 and for a missing
\* orientation; and an upload request whose files were all stored and whose
\* insert the database accepts ends with its Analysis created.
C21_CreatePersists ==
  /\ [][\A id \in DOMAIN db' \ DOMAIN db :
          /\ db'[id].user \in Users
          /\ db'[id].status = "pending"
          /\ \A c \in CounterNames : db'[id][c] = 0
          /\ db'[id].processingStartedAt = NoTime
          /\ db'[id].completedAt = NoTime
          /\ db'[id].title >= 3 /\ db'[id].title <= TitleMax
          /\ db'[id].floorPlan.orientation \in Orientations]_vars
  /\ [](\A u \in Users, plan \in BasePlans :
          /\ CreateChecks(u, 2, plan) = 400
          /\ CreateChecks(u, TitleMax + 1, plan) = 400
          /\ CreateChecks(u, 10, [plan EXCEPT !.orientation = Undef]) = 400)
  /\ []((upload.pc = "done"
           /\ upload.error \notin {"File upload failed", "MongoError"})
          => upload.answer = "created")

(* ----------------------------- routes/auth.js -------------------------- *)

\* crypto.createHash('sha256') of a raw reset token: injective, and no raw
\* token is its own digest
sha256(t) == 0 - t - 1

\* the auth request in slot r
Auth(r) == authReq.slots[r]
\* slot r takes the record v
SetAuth(r, v) == [authReq EXCEPT !.slots[r] = v]
\* slot r ends its request with the response code
Answer(r, code) == [Auth(r) EXCEPT !.pc = "idle", !.answer = code]

\* the wall clock passes half of a reset token's lifetime
Wait ==
  /\ now < MaxTicks * (ResetExpire \div 2)
  /\ now' = now + ResetExpire \div 2
  /\ UNCHANGED <<db, created, slot, runs, acks, cloud, upload, listing,
               accounts, authReq, route, call>>

\* POST /register up to User.create: 400 when a user with the email exists
RegisterChecks(email) == IF email \in DOMAIN accounts THEN 400 ELSE 0

\* POST /register: findOne found no user with the email
RegisterLoad(r, email) ==
  /\ Auth(r).pc = "idle"
  /\ RegisterChecks(email) = 0
  /\ authReq' = SetAuth(r, [IdleAuth EXCEPT !.op = "register",
                                            !.pc = "loaded", !.user = email])
  /\ UNCHANGED <<db, created, now, slot, runs, acks, cloud, upload, listing,
               accounts, route, call>>

\* POST /register: User.create; a rejected insert leaves catchAsync to
\* answer with the error
RegisterCreate(r, dbOk) ==
  /\ Auth(r).op = "register" /\ Auth(r).pc = "loaded"
  /\ IF dbOk /\ Auth(r).user \notin DOMAIN accounts
       THEN /\ accounts' = [u \in DOMAIN accounts \cup {Auth(r).user} |->
                              IF u \in DOMAIN accounts THEN accounts[u]
                              ELSE ActiveUser]
            /\ authReq' = SetAuth(r, [Auth(r) EXCEPT !.pc = "created"])
       ELSE /\ authReq' = SetAuth(r, Answer(r, 500))
            /\ UNCHANGED accounts
  /\ UNCHANGED <<db, created, now, slot, runs, acks, cloud, upload, listing,
               route, call>>

\* POST /register: the save of the email verification token
RegisterToken(r, dbOk) ==
  /\ Auth(r).op = "register" /\ Auth(r).pc = "created"
  /\ authReq' = SetAuth(r, IF dbOk THEN [Auth(r) EXCEPT !.pc = "sending"]
                           ELSE Answer(r, 500))
  /\ UNCHANGED <<db, created, now, slot, runs, acks, cloud, upload, listing,
               accounts, route, call>>

\* variant: the error of sendEmail reaches catchAsync
RegisterSend_Rethrow(r, ok) ==
  /\ Auth(r).op = "register" /\ Auth(r).pc = "sending"
  /\ authReq' = SetAuth(r, [Answer(r, IF ok THEN 201 ELSE 500) EXCEPT
                              !.mail = IF ok THEN "sent" ELSE "failed"])
  /\ UNCHANGED <<db, created, now, slot, runs, acks, cloud, upload, listing,
               accounts, route, call>>

\* POST /register: sendEmail resolves or throws; the catch block logs the
\* error and answers 201 as the try block does
RegisterSend(r, ok) ==
  /\ Auth(r).op = "register" /\ Auth(r).pc = "sending"
  /\ authReq' = SetAuth(r, [Answer(r, 201) EXCEPT
                              !.mail = IF ok THEN "sent" ELSE "failed"])
  /\ UNCHANGED <<db, created, now, slot, runs, acks, cloud, upload, listing,
               accounts, route, call>>

\* POST /forgot-password up to the token: 404 when no user has the email
ForgotChecks(email) == IF email \notin DOMAIN accounts THEN 404 ELSE 0

\* POST /forgot-password: findOne found the user
ForgotLoad(r, email) ==
  /\ Auth(r).pc = "idle"
  /\ ForgotChecks(email) = 0
  /\ authReq.issued
       + Cardinality({q \in AuthSlots : Auth(q).op = "forgot"
                                          /\ Auth(q).pc = "loaded"})
       < MaxTokens
  /\ authReq' = SetAuth(r, [IdleAuth EXCEPT !.op = "forgot",
                                            !.pc = "loaded", !.user = email])
  /\ UNCHANGED <<db, created, now, slot, runs, acks, cloud, upload, listing,
               accounts, route, call>>

\* POST /forgot-password: a fresh token, its digest and its expiry are set
\* on the document and saved
ForgotSave(r, dbOk) ==
  LET t == authReq.issued + 1
      u == Auth(r).user
  IN /\ Auth(r).op = "forgot" /\ Auth(r).pc = "loaded"
     /\ IF dbOk
          THEN /\ accounts' = [accounts EXCEPT
                                 ![u].resetPasswordToken = sha256(t),
                                 ![u].resetPasswordExpire = now + ResetExpire]
               /\ authReq' = [authReq EXCEPT
                                !.slots[r] = [Auth(r) EXCEPT !.pc = "sending",
                                                             !.token = t],
                                !.issued = t,
                                !.resets = Append(authReq.resets, 0)]
          ELSE /\ authReq' = [authReq EXCEPT
                                !.slots[r] = Answer(r, 500),
                                !.issued = t,
                                !.resets = Append(authReq.resets, 0)]
               /\ UNCHANGED accounts
     /\ UNCHANGED <<db, created, now, slot, runs, acks, cloud, upload,
                    listing, route, call>>

\* POST /forgot-password: sendEmail resolves and the request is answered
\* 200, or it throws and the catch block runs
ForgotSend(r, ok) ==
  /\ Auth(r).op = "forgot" /\ Auth(r).pc = "sending"
  /\ authReq' = IF ok
                  THEN [authReq EXCEPT
                          !.slots[r] = [Answer(r, 200) EXCEPT !.mail = "sent"],
                          !.sent = authReq.sent \cup {Auth(r).token}]
                  ELSE SetAuth(r, [Auth(r) EXCEPT !.pc = "clearing",
                                                  !.mail = "failed"])
  /\ UNCHANGED <<db, created, now, slot, runs, acks, cloud, upload, listing,
               accounts, route, call>>

\* POST /forgot-password, catch block: both reset fields are unset on the
\* document and saved, then the request is answered 500
ForgotClear(r, dbOk) ==
  LET u == Auth(r).user
  IN /\ Auth(r).op = "forgot" /\ Auth(r).pc = "clearing"
     /\ accounts' = IF dbOk
                      THEN [accounts EXCEPT
                              ![u].resetPasswordToken = NoTime,
                              ![u].resetPasswordExpire = NoTime]
                      ELSE accounts
     /\ authReq' = SetAuth(r, Answer(r, 500))
     /\ UNCHANGED <<db, created, now, slot, runs, acks, cloud, upload,
                    listing, route, call>>

\* the users reset-password's findOne matches for the raw token
ResetMatch(t) ==
  {u \in DOMAIN accounts :
     /\ accounts[u].resetPasswordToken = sha256(t)
     /\ accounts[u].resetPasswordExpire > now}

\* POST /reset-password/:token up to the save: 400 when findOne finds no user
ResetChecks(t) == IF ResetMatch(t) = {} THEN 400 ELSE 0

\* POST /reset-password/:token: findOne found the user
ResetLoad(r, t) ==
  /\ Auth(r).pc = "idle"
  /\ ResetChecks(t) = 0
  /\ \E u \in ResetMatch(t) :
       authReq' = SetAuth(r, [IdleAuth EXCEPT !.op = "reset", !.pc = "loaded",
                                              !.user = u, !.token = t])
  /\ UNCHANGED <<db, created, now, slot, runs, acks, cloud, upload, listing,
               accounts, route, call>>

\* POST /reset-password/:token: the password is set and both reset fields
\* are unset on the document, it is saved and the request is answered 200
ResetSave(r, password, dbOk) ==
  LET u == Auth(r).user
      t == Auth(r).token
  IN /\ Auth(r).op = "reset" /\ Auth(r).pc = "loaded"
     /\ IF dbOk
          THEN /\ accounts' = [accounts EXCEPT
                                 ![u].password = password,
                                 ![u].resetPasswordToken = NoTime,
                                 ![u].resetPasswordExpire = NoTime]
               /\ authReq' = [authReq EXCEPT
                                !.slots[r] = Answer(r, 200),
                                !.resets[t] = @ + 1]
          ELSE /\ authReq' = SetAuth(r, Answer(r, 500))
               /\ UNCHANGED accounts
     /\ UNCHANGED <<db, created, now, slot, runs, acks, cloud, upload,
                    listing, route, call>>

NextRegister ==
  \/ \E r \in AuthSlots, email \in Users \cup NewEmails :
       RegisterLoad(r, email)
  \/ \E r \in AuthSlots, ok \in BOOLEAN :
       \/ RegisterCreate(r, ok)
       \/ RegisterToken(r, ok)
       \/ RegisterSend(r, ok)
  \/ \E r \in AuthSlots, email \in NewEmails : ForgotLoad(r, email)

SpecRegister == Init /\ [][NextRegister]_vars

NextAuth ==
  \/ Wait
  \/ \E r \in AuthSlots, email \in Users \cup NewEmails :
       ForgotLoad(r, email)
  \/ \E r \in AuthSlots, ok \in BOOLEAN :
       \/ ForgotSave(r, ok)
       \/ ForgotSend(r, ok)
       \/ ForgotClear(r, ok)
  \/ \E r \in AuthSlots, t \in 1..authReq.issued : ResetLoad(r, t)
  \/ \E r \in AuthSlots, password \in NewPasswords, dbOk \in BOOLEAN :
       ResetSave(r, password, dbOk)

SpecAuth == Init /\ [][NextAuth]_vars

\* C22: a registration whose verification email was attempted is answered
\* 201 whether sendEmail resolved or threw, and the user it created is
\* still stored.
C22_RegisterDespiteMail ==
  \A r \in AuthSlots :
    (Auth(r).op = "register" /\ Auth(r).pc = "idle" /\ Auth(r).mail # "none")
      => /\ Auth(r).answer = 201
         /\ Auth(r).user \in DOMAIN accounts
         /\ accounts[Auth(r).user].isActive

\* C22 witness: a registration for a new email was answered 201 after
\* sendEmail threw, and the user is stored.
C22_Witness ==
  \E r \in AuthSlots :
    /\ Auth(r).op = "register" /\ Auth(r).pc = "idle"
    /\ Auth(r).mail = "failed"
    /\ Auth(r).answer = 201
    /\ Auth(r).user \in NewEmails \cap DOMAIN accounts

\* C23: a forgot-password request for an existing user whose reset email
\* was attempted is answered 200 whether sendEmail resolved or threw.
C23_ForgotDespiteMail ==
  \A r \in AuthSlots :
    (Auth(r).op = "forgot" /\ Auth(r).pc = "idle" /\ Auth(r).mail # "none")
      => Auth(r).answer = 200

\* C30: no reset token is answered 200 by reset-password more than once,
\* and a reset-password step that saves leaves its token rejected from then
\* on.
C30_ResetTokenOnce ==
  /\ [](\A t \in DOMAIN authReq.resets : authReq.resets[t] <= 1)
  /\ [][\A r \in AuthSlots :
          (Auth(r).op = "reset" /\ Auth(r).pc = "loaded"
             /\ authReq'.slots[r].pc = "idle"
             /\ authReq'.slots[r].answer = 200)
            => \A u \in DOMAIN accounts :
                 accounts'[u].resetPasswordToken # sha256(Auth(r).token)]_vars

(* ------------------------- middleware/auth.js -------------------------- *)

\* the passwords a client sends to login; 0 is the one the seeded users have
LoginPasswords == {0, 1}

\* POST /login up to the tokens: 401 for an unknown email, a deactivated
\* account or a wrong password
LoginChecks(email, password) ==
  IF email \notin DOMAIN accounts THEN 401
  ELSE IF ~accounts[email].isActive THEN 401
  ELSE IF accounts[email].password # password THEN 401
  ELSE 0

\* POST /login: the user is handed a JWT
Login(email, password) ==
  /\ LoginChecks(email, password) = 0
  /\ authReq' = [authReq EXCEPT !.sessions = @ \cup {email}]
  /\ UNCHANGED <<db, created, now, slot, runs, acks, cloud, upload, listing,
               accounts, route, call>>

\* variant: protect without the isActive check
protectAccount_NoActiveCheck(tok) ==
  IF tok \notin authReq.sessions THEN 401
  ELSE IF tok \notin DOMAIN accounts THEN 401
  ELSE 0

\* protect on the token of a request: 401 without a valid token, when the
\* user of the token is not found and when the user is deactivated
protectAccount(tok) ==
  IF tok \notin authReq.sessions THEN 401
  ELSE IF tok \notin DOMAIN accounts THEN 401
  ELSE IF ~accounts[tok].isActive THEN 401
  ELSE 0

\* optionalAuth: req.user is set only for a valid token of an active user
optionalAuth(tok) ==
  IF /\ tok \in authReq.sessions
     /\ tok \in DOMAIN accounts
     /\ accounts[tok].isActive
    THEN tok
    ELSE Anonymous

\* DELETE /api/users/account: the caller deactivates the own account
DeleteAccount(tok) ==
  /\ protectAccount(tok) = 0
  /\ accounts' = [accounts EXCEPT ![tok].isActive = FALSE]
  /\ UNCHANGED <<db, created, now, slot, runs, acks, cloud, upload, listing,
               authReq, route, call>>

\* the bodies an admin sends to PUT /api/users/:id: the fields in has are
\* sent
AdminBodies ==
  {[has |-> {"isActive"}, role |-> "user", isActive |-> TRUE],
   [has |-> {"role", "isActive"}, role |-> "admin", isActive |-> FALSE]}

\* PUT /api/users/:id by an admin: role and isActive are set when sent (the
\* subscription is the fixed PremiumUsers here)
AdminUpdateUser(id, body) ==
  /\ id \in DOMAIN accounts
  /\ accounts' = [accounts EXCEPT
                    ![id].role = IF "role" \in body.has THEN body.role ELSE @,
                    ![id].isActive = IF "isActive" \in body.has
                                       THEN body.isActive ELSE @]
  /\ UNCHANGED <<db, created, now, slot, runs, acks, cloud, upload, listing,
               authReq, route, call>>

\* DELETE /api/users/:id by an admin: soft delete
AdminDeleteUser(id) ==
  /\ id \in DOMAIN accounts
  /\ accounts' = [accounts EXCEPT ![id].isActive = FALSE]
  /\ UNCHANGED <<db, created, now, slot, runs, acks, cloud, upload, listing,
               authReq, route, call>>

\* the account routes next to creation and deletion of Analyses by the
\* bearer of a token
NextAccess ==
  \/ \E email \in Users, password \in LoginPasswords : Login(email, password)
  \/ \E tok \in Users : DeleteAccount(tok)
  \/ \E id \in Users, body \in AdminBodies : AdminUpdateUser(id, body)
  \/ \E id \in Users : AdminDeleteUser(id)
  \/ \E tok \in Users, id \in AnalysisIds \cup StoredIds,
        title \in CreateTitles, isPublic \in BOOLEAN, plan \in BasePlans :
       /\ protectAccount(tok) = 0
       /\ CreateAnalysis(tok, id, title, isPublic, plan)
  \/ \E tok \in Users, id \in AnalysisIds \cup StoredIds :
       /\ protectAccount(tok) = 0
       /\ DeleteAnalysis(tok, id, TRUE)

SpecAccess == Init /\ [][NextAccess]_vars

Scored == IF call.fn = "mockResults" THEN call.scored ELSE {}

\* the scoring step computes its result for the floor plan of an Analysis:
\* mockResults does not read the floor plan and draws Math.random()
ScoreFloorPlan(plan, rnd) ==
  /\ call' = [fn |-> "mockResults", input |-> plan,
              result |-> mockResults(rnd),
              scored |-> Scored \cup {<<plan, mockResults(rnd).overallScore>>}]
  /\ UNCHANGED <<db, created, now, slot, runs, acks, cloud, upload, listing,
               accounts, authReq, route>>

NextScoring == \E plan \in FloorPlans, rnd \in RandomSamples :
                 ScoreFloorPlan(plan, rnd)

SpecScoring == Init /\ [][NextScoring]_vars

\* C24: two scoring steps given the same floor plan produce the same
\* overallScore.
C24_ScoringDeterministic ==
  \A p \in Scored, q \in Scored : p[1] = q[1] => p[2] = q[2]

(* ------------------------- services/mlService.js ----------------------- *)

\* the features a caller passes: plot_area, orientation_encoded and
\* room_type_encoded
Features ==
  [plot_area : {0, 900, 1200, 2500}, orientation_encoded : 0..7,
   room_type_encoded : 0..3]

\* how the run of the Python predictor ends: exit 0 with JSON, exit 0 with
\* output that does not parse, a non-zero exit, spawn throwing, and the
\* child emitting 'error' because the executable cannot be started
PythonOutcomes == {"ok", "badjson", "exit1", "spawnThrow", "spawnError"}
\* vastu_score in the JSON of the predictor; NoTime when the key is absent
PythonScores == {NoTime, 0, 72}

\* a || d on numbers
OrElse(a, d) == IF Truthy(a) THEN a ELSE d

\* orientationBonus[orientation] || 0
orientationBonus(o) ==
  IF o \in 0..7 THEN <<8, 15, 10, 6, 4, 2, 3, 5>>[o + 1] ELSE 0

Min(a, b) == IF a < b THEN a ELSE b
Max(a, b) == IF a > b THEN a ELSE b

\* getMockPrediction; confidence in hundredths
getMockPrediction(features) ==
  LET plotArea == OrElse(features.plot_area, 1200)
      orientation == OrElse(features.orientation_encoded, 2)
      roomType == OrElse(features.room_type_encoded, 3)
      baseScore == 70
                   + (IF plotArea > 2000 THEN 10 ELSE 0)
                   - (IF plotArea < 1000 THEN 5 ELSE 0)
                   + orientationBonus(orientation)
                   + (IF roomType = 1 THEN 5 ELSE 0)
                   + (IF roomType = 2 THEN 3 ELSE 0)
  IN [vastuScore |-> Min(100, Max(0, baseScore)), confidence |-> 75,
      modelType |-> "Mock"]

\* the keys formatPredictionResult reads, on the JSON of the predictor
PythonResult(score) ==
  [vastu_score |-> score, confidence |-> 91, model_type |-> "RandomForest"]

\* the same keys on the object getMockPrediction returns: it has confidence,
\* and neither vastu_score nor model_type
MockAsResult(mock) ==
  [vastu_score |-> NoTime, confidence |-> mock.confidence,
   model_type |-> Undef]

\* formatPredictionResult; the scores are whole numbers, which Math.round
\* leaves as they are
formatPredictionResult(result) ==
  [vastuScore |-> OrElse(result.vastu_score, 85),
   confidence |-> OrElse(result.confidence, 87),
   modelType |-> IF result.model_type = Undef THEN "RandomForest"
                 ELSE result.model_type]

\* what the promise of callPythonPredictor resolves with
callPythonPredictor(features, outcome, score) ==
  IF outcome = "ok" THEN PythonResult(score)
  ELSE MockAsResult(getMockPrediction(features))

\* the process ends with an uncaught 'error' event: no prediction
Uncaught == [vastuScore |-> NoTime, confidence |-> NoTime,
             modelType |-> "uncaughtException"]

\* predictVastuScore
predictVastuScore(features, isModelLoaded, outcome, score) ==
  IF ~isModelLoaded THEN getMockPrediction(features)
  ELSE IF outcome = "spawnThrow" THEN getMockPrediction(features)
  ELSE IF outcome = "spawnError" THEN Uncaught
  ELSE formatPredictionResult(callPythonPredictor(features, outcome, score))

\* a caller awaits predictVastuScore(features)
Predict(features, isModelLoaded, outcome, score) ==
  /\ call' = [fn |-> "predictVastuScore", features |-> features,
              isModelLoaded |-> isModelLoaded, outcome |-> outcome,
              result |-> predictVastuScore(features, isModelLoaded, outcome,
                                           score)]
  /\ UNCHANGED <<db, created, now, slot, runs, acks, cloud, upload, listing,
               accounts, authReq, route>>

\* the runs of the predictor: only a run that ends with JSON has a score
PythonRuns ==
  {run \in PythonOutcomes \X PythonScores : run[1] # "ok" => run[2] = NoTime}

NextPredict ==
  \E features \in Features, isModelLoaded \in BOOLEAN, run \in PythonRuns :
    Predict(features, isModelLoaded, run[1], run[2])

SpecPredict == Init /\ [][NextPredict]_vars

\* C25: when the model is not loaded or the run of the Python predictor does
\* not end with parsable output, predictVastuScore returns the mock
\* prediction of the features: modelType Mock and a vastuScore from 0 to 100.
C25_MockFallback ==
  (call.fn = "predictVastuScore"
     /\ (~call.isModelLoaded \/ call.outcome # "ok"))
    => /\ call.result = getMockPrediction(call.features)
       /\ call.result.modelType = "Mock"
       /\ call.result.vastuScore >= 0 /\ call.result.vastuScore <= 100

(* --------------------------- express routing --------------------------- *)

\* one registered route: method, path pattern, the check in front of the
\* handler's work and the handler
Layer(method, path, check, handler) ==
  [method |-> method, path |-> path, check |-> check, handler |-> handler]

\* routes/analysis.js in the order of registration
AnalysisRoutes ==
  << Layer("GET", <<>>, "none", "list"),
     Layer("GET", <<"my-analyses">>, "none", "myAnalyses"),
     Layer("GET", <<":id">>, "validateObjectId", "getById"),
     Layer("POST", <<>>, "none", "create"),
     Layer("PUT", <<":id">>, "validateObjectId", "update"),
     Layer("DELETE", <<":id">>, "validateObjectId", "delete"),
     Layer("POST", <<":id", "start">>, "validateObjectId", "start"),
     Layer("POST", <<":id", "like">>, "validateObjectId", "like"),
     Layer("POST", <<":id", "share">>, "validateObjectId", "share"),
     Layer("GET", <<"popular">>, "none", "popular"),
     Layer("GET", <<"recent">>, "none", "recent") >>

\* routes/vastu.js in the order of registration
VastuRoutes ==
  << Layer("GET", <<"rules">>, "none", "listRules"),
     Layer("GET", <<"rules", ":id">>, "findById", "getRule"),
     Layer("GET", <<"rules", "search">>, "none", "searchRules"),
     Layer("GET", <<"rules", "category", ":category">>, "none",
           "rulesByCategory"),
     Layer("GET", <<"rules", "critical">>, "none", "criticalRules"),
     Layer("GET", <<"rules", ":id", "remedies">>, "findById", "remedies"),
     Layer("GET", <<"elements">>, "none", "elements"),
     Layer("GET", <<"directions">>, "none", "directions"),
     Layer("GET", <<"rooms", ":roomType">>, "none", "rooms"),
     Layer("POST", <<"rules">>, "none", "createRule"),
     Layer("PUT", <<"rules", ":id">>, "findById", "updateRule"),
     Layer("DELETE", <<"rules", ":id">>, "findById", "deleteRule") >>

RouteTable(router) == IF router = "analysis" THEN AnalysisRoutes
                      ELSE VastuRoutes

\* path segments that are ObjectIds
ObjectIds == AnalysisIds \cup {"r1"}
\* the route parameters
Params == {":id", ":category", ":roomType"}

\* the request paths sent to each router, below its mount point
RoutePaths(router) ==
  IF router = "analysis"
    THEN {<<>>, <<"my-analyses">>, <<"a1">>, <<"popular">>, <<"recent">>,
          <<"a1", "start">>}
    ELSE {<<"rules">>, <<"rules", "r1">>, <<"rules", "search">>,
          <<"rules", "critical">>, <<"rules", "category", "kitchen">>,
          <<"rules", "r1", "remedies">>, <<"elements">>}
Methods == {"GET", "POST"}

\* a layer matches a request of its method whose path has the pattern's
\* segments, a parameter standing for any one segment
Matches(layer, method, path) ==
  /\ layer.method = method
  /\ Len(layer.path) = Len(path)
  /\ \A i \in 1..Len(path) :
       layer.path[i] \in Params \/ layer.path[i] = path[i]

\* the value of :id in the path
IdParam(layer, path) ==
  LET at == {i \in 1..Len(path) : layer.path[i] = ":id"}
  IN IF at = {} THEN "a1" ELSE path[CHOOSE i \in at : TRUE]

\* what answers a request in the matching layer: validateObjectId answers
\* 400 for an id that is no ObjectId, findById rejects with a CastError for
\* one, and otherwise the handler of the route does its work
Handled(layer, path) ==
  IF layer.check = "none" \/ IdParam(layer, path) \in ObjectIds
    THEN layer.handler
  ELSE IF layer.check = "validateObjectId" THEN "400 Invalid id ID format"
  ELSE "CastError"

\* a request arrives at a router
Dispatch(router, method, path) ==
  /\ route.router = "none" \/ route.handler # "none"
  /\ route' = [router |-> router, method |-> method, path |-> path,
               layer |-> 1, handler |-> "none"]
  /\ UNCHANGED <<db, created, now, slot, runs, acks, cloud, upload, listing,
               accounts, authReq, call>>

\* the router passes a layer that does not match
SkipLayer ==
  /\ route.router # "none" /\ route.handler = "none"
  /\ route.layer <= Len(RouteTable(route.router))
  /\ ~Matches(RouteTable(route.router)[route.layer], route.method, route.path)
  /\ route' = [route EXCEPT !.layer = @ + 1]
  /\ UNCHANGED <<db, created, now, slot, runs, acks, cloud, upload, listing,
               accounts, authReq, call>>

\* the first layer that matches takes the request; none of the handlers
\* calls next()
HandleLayer ==
  /\ route.router # "none" /\ route.handler = "none"
  /\ route.layer <= Len(RouteTable(route.router))
  /\ Matches(RouteTable(route.router)[route.layer], route.method, route.path)
  /\ route' = [route EXCEPT
                 !.handler = Handled(RouteTable(route.router)[route.layer],
                                     route.path)]
  /\ UNCHANGED <<db, created, now, slot, runs, acks, cloud, upload, listing,
               accounts, authReq, call>>

\* no layer of the router matched
NotFound ==
  /\ route.router # "none" /\ route.handler = "none"
  /\ route.layer > Len(RouteTable(route.router))
  /\ route' = [route EXCEPT !.handler = "404"]
  /\ UNCHANGED <<db, created, now, slot, runs, acks, cloud, upload, listing,
               accounts, authReq, call>>

NextRoutes ==
  \/ \E router \in {"analysis", "vastu"}, method \in Methods :
       \E path \in RoutePaths(router) : Dispatch(router, method, path)
  \/ SkipLayer
  \/ HandleLayer
  \/ NotFound

SpecRoutes == Init /\ [][NextRoutes]_vars

\* C26: a GET request for /api/vastu/rules/search, /api/vastu/rules/critical,
\* /api/analysis/popular or /api/analysis/recent is answered by the handler
\* registered for that path.
C26_StaticRoutes ==
  (route.method = "GET" /\ route.handler # "none")
    => /\ (route.router = "vastu" /\ route.path = <<"rules", "search">>)
            => route.handler = "searchRules"
       /\ (route.router = "vastu" /\ route.path = <<"rules", "critical">>)
            => route.handler = "criticalRules"
       /\ (route.router = "analysis" /\ route.path = <<"popular">>)
            => route.handler = "popular"
       /\ (route.router = "analysis" /\ route.path = <<"recent">>)
            => route.handler = "recent"

(* ------------------- terminal states and late callbacks ---------------- *)

\* C27: no step takes a stored Analysis out of completed or failed, and no
\* step changes the vastuAnalysis, completedAt or processingTime of a
\* completed Analysis.
C27_TerminalStates ==
  [][\A id \in DOMAIN db \cap DOMAIN db' :
       /\ db[id].status \in {"completed", "failed"}
            => db'[id].status = db[id].status
       /\ db[id].status = "completed"
            => /\ db'[id].vastuAnalysis = db[id].vastuAnalysis
               /\ db'[id].completedAt = db[id].completedAt
               /\ db'[id].processingTime = db[id].processingTime]_vars

\* C28: an Analysis that was deleted is never stored again and is answered
\* 404 to every caller, and no step of the timer callback for a deleted
\* Analysis ends in an unhandled rejection.
C28_DeletedWhileProcessing ==
  /\ [][\A id \in DOMAIN db' \ DOMAIN db : id \notin created]_vars
  /\ [](\A id \in created \ DOMAIN db, u \in Users \cup {Anonymous} :
          ViewChecks(u, id) = 404)
  /\ [][\A r \in Slots :
          (slot[r].pc \in {"scheduled", "catch"} /\ slot[r].id \notin DOMAIN db)
            => slot'[r].op # "unhandledRejection"]_vars

====
